---- MODULE Spec2Model ----
(***************************************************************************)
(* Crank-Nicolson electron transport solver of DarkMatters                 *)
(* (src/dark_matters/emissions/cn_electron.py, class cn_scheme).           *)
(*                                                                         *)
(* Real numbers are held in fixed point: the real x is the integer         *)
(* x * One, and every product and quotient rounds (towards minus           *)
(* infinity) to a multiple of 1/One, as every floating point operation of  *)
(* the code rounds.  Division by zero gives the IEEE results the code      *)
(* relies on (inf, nan), see FDiv.                                         *)
(***************************************************************************)
EXTENDS Integers, Sequences, FiniteSets

\* ------------------------------------------------------------- arithmetic

RECURSIVE Pow2(_)
Pow2(n) == IF n = 0 THEN 1 ELSE 2 * Pow2(n - 1)

\* The fixed-point unit: the integer that stands for the real number 1, a
\* power of two (FracBits binary digits after the point).
FracBits == 8

One == Pow2(FracBits)

Abs(x) == IF x < 0 THEN -x ELSE x

Mul(a, b) == (a * b) \div One

Div(a, b) == (a * One) \div b

Min2(a, b) == IF a < b THEN a ELSE b

Max2(a, b) == IF a > b THEN a ELSE b

\* np.log(10) and log10(2), rounded to the fixed-point grid.
Ln10 == (One * 2302585) \div 1000000

Lg2 == (One * 30103) \div 100000

\* log10 and 10**x on the values the grids take (powers of two times One).
RECURSIVE Log10(_)
Log10(x) == IF x = One THEN 0
            ELSE IF x > One THEN Lg2 + Log10(x \div 2)
            ELSE Log10(2 * x) - Lg2

RECURSIVE Exp10(_)
Exp10(y) == IF y = 0 THEN One
            ELSE IF y > 0 THEN 2 * Exp10(y - Lg2)
            ELSE Exp10(y + Lg2) \div 2

\* np.log on the same values.
Ln(x) == Mul(Log10(x), Ln10)

RECURSIVE IPow(_, _)
IPow(x, n) == IF n = 0 THEN One ELSE Mul(x, IPow(x, n - 1))

\* IEEE quotient a/b as the checks of cn_2D use it: a finite value, +-inf
\* (x/0, x # 0) or nan (0/0).  Kind 0 is finite, 1 is inf, 2 is nan.
FDiv(a, b) == IF b # 0 THEN <<0, Div(a, b)>>
              ELSE IF a # 0 THEN <<1, 0>>
              ELSE <<2, 0>>

\* np.abs(q - c) < 1/tolInv for an IEEE value q: false for nan and for inf
\* (|x| * tolInv < One, written without the product).
FAbsDiffBelow(q, c, tolInv) ==
    /\ q[1] = 0
    /\ Abs(q[2] - c) <= (One - 1) \div tolInv

\* np.abs(q) > x for an IEEE value q and a finite x: true for inf, false for nan.
FAbsAbove(q, x) ==
    \/ q[1] = 1
    \/ q[1] = 0 /\ Abs(q[2]) > x

\* ------------------------------------------------------------------ grids

\* len(r_sample) and len(E_sample).
r_bins == 3

E_bins == 2

RIdx == 0 .. (r_bins - 1)

EIdx == 0 .. (E_bins - 1)

FlatIdx == 0 .. (r_bins * E_bins - 1)

\* The scale variables r0, E0 and the samples, log-spaced by a factor 2:
\* r from r0 to 2^(r_bins-1) r0, E from E0 to 2^(E_bins-1) E0 (r already
\* in cm, as line 56 converts it).
r0 == One

E0 == One

r_grid == [i \in RIdx |-> r0 * Pow2(i)]

E_grid == [j \in EIdx |-> E0 * Pow2(j)]

logr(r) == Log10(Div(r, r0))

logE(E) == Log10(Div(E, E0))

logr_grid == [i \in RIdx |-> logr(r_grid[i])]

logE_grid == [j \in EIdx |-> logE(E_grid[j])]

Delta_r == logr_grid[1] - logr_grid[0]

Delta_E == logE_grid[1] - logE_grid[0]

r_prefactor(i) == Div(One, Mul(Mul(Exp10(logr_grid[i]), Ln10), r0))

E_prefactor(j) == Div(One, Mul(Mul(Exp10(logE_grid[j]), Ln10), E0))

\* Arrays are functions on 0 .. n-1, as numpy indexes them.
Arange(n) == [p \in 0 .. (n - 1) |-> p]

Size(v) == Cardinality(DOMAIN v)

\* v[:-1] and v[1:].
DropLast(v) == [p \in 0 .. (Size(v) - 2) |-> v[p]]

DropFirst(v) == [p \in 0 .. (Size(v) - 2) |-> v[p + 1]]

\* ------------------------------------------------- coefficient fields
\* The arrays solveElectrons stores in self.D, self.dDdr and self.b (the
\* values set_D, set_dDdr and set_b return for the sampled halo), shape
\* (r_bins, E_bins): D grows with E and towards the halo edge, b grows with E.
D == [i \in RIdx |-> [j \in EIdx |-> (One \div 8) * (j + 1) + (One \div 16) * i]]

dDdr == [i \in RIdx |-> [j \in EIdx |-> (One \div 64) * (j + 1)]]

b == [i \in RIdx |-> [j \in EIdx |->
        (E_grid[j] * (j + 1)) \div 8 + (One \div 32) * (r_bins - i)]]

\* np.log10(10)
log10_10 == One

\* ------------------------------------------------- alpha coefficients
\* Each takes the index vectors it is called with and returns the array
\* of coefficients; dt is self.Delta_t at the time of the call.
r_alpha1(dt, i, j) ==
    [p \in DOMAIN i |->
        Mul(Mul(dt, IPow(r_prefactor(i[p]), 2)),
            Div(-(Mul(log10_10, D[i[p]][j]) + dDdr[i[p]][j]), 2 * Delta_r)
              + Div(D[i[p]][j], Mul(Delta_r, Delta_r)))]

r_alpha2(dt, i, j) ==
    [p \in DOMAIN i |->
        IF p = 0
        THEN Div(Mul(Mul(dt, IPow(r_prefactor(0), 2)), 4 * D[0][j]),
                 Mul(Delta_r, Delta_r))
        ELSE Mul(Mul(dt, IPow(r_prefactor(i[p]), 2)),
                 Div(2 * D[i[p]][j], Mul(Delta_r, Delta_r)))]

r_alpha3(dt, i, j) ==
    [p \in DOMAIN i |->
        IF p = 0
        THEN Div(Mul(Mul(dt, IPow(r_prefactor(0), 2)), 4 * D[0][j]),
                 Mul(Delta_r, Delta_r))
        ELSE Mul(Mul(dt, IPow(r_prefactor(i[p]), 2)),
                 Div(Mul(log10_10, D[i[p]][j]) + dDdr[i[p]][j], 2 * Delta_r)
                   + Div(D[i[p]][j], Mul(Delta_r, Delta_r)))]

\* A centred energy stencil: the lower coefficient given the value of the
\* diagonal one instead of zero.
E_alpha1_Centred(dt, i, j) ==
    [p \in DOMAIN j |->
        Div(Mul(Mul(dt, E_prefactor(j[p])), b[i][j[p]]), Delta_E)]

E_alpha1(dt, i, j) == [p \in DOMAIN j |-> 0]

E_alpha2(dt, i, j) ==
    [p \in DOMAIN j |->
        Div(Mul(Mul(dt, E_prefactor(j[p])), b[i][j[p]]), Delta_E)]

\* alpha[:-1] takes the entries at j+1, alpha[-1] the entry at the last j
\* it is called with.
E_alpha3(dt, i, j) ==
    [p \in DOMAIN j |->
        IF p < Size(j) - 1
        THEN Mul(dt, Div(Mul(E_prefactor(j[p] + 1), b[i][j[p] + 1]), Delta_E))
        ELSE Mul(dt, Div(Mul(E_prefactor(j[p]), b[i][j[p]]), Delta_E))]

\* ------------------------------------------------- A, B matrices
\* A sparse matrix of sparse.diags(offsets = [-1, 0, 1]) is the record of
\* its three diagonals: M[p+1, p] = l[p], M[p, p] = m[p], M[p, p+1] = u[p].
spmatrices_loss(dt) ==
    LET I == r_bins
        J == E_bins
        a1(i) == E_alpha1(dt, i, DropFirst(Arange(J)))
        a2(i) == E_alpha2(dt, i, Arange(J))
        a3(i) == E_alpha3(dt, i, DropLast(Arange(J)))
        k_u == [p \in FlatIdx |->
                  IF p % J <= J - 2 THEN (-a3(p \div J)[p % J]) \div 2 ELSE 0]
        k_mA == [p \in FlatIdx |-> One + a2(p \div J)[p % J] \div 2]
        k_mB == [p \in FlatIdx |-> One - a2(p \div J)[p % J] \div 2]
        k_l == [p \in FlatIdx |->
                  IF p % J <= J - 2 THEN (-a1(p \div J)[p % J]) \div 2 ELSE 0]
    IN  <<[l |-> k_l, m |-> k_mA, u |-> k_u],
          [l |-> [p \in FlatIdx |-> -k_l[p]], m |-> k_mB,
           u |-> [p \in FlatIdx |-> -k_u[p]]]>>

\* The off-diagonals of the diffusion matrices filled along their whole
\* length, the last entry of a block included.
spmatrices_diff_Unblocked(dt) ==
    LET I == r_bins
        J == E_bins
        a1(j) == r_alpha1(dt, Arange(I), j)
        a2(j) == r_alpha2(dt, Arange(I), j)
        a3(j) == r_alpha3(dt, Arange(I), j)
        k_u == [p \in FlatIdx |-> (-a3(p \div I)[p % I]) \div 2]
        k_mA == [p \in FlatIdx |-> One + a2(p \div I)[p % I] \div 2]
        k_mB == [p \in FlatIdx |-> One - a2(p \div I)[p % I] \div 2]
        k_l == [p \in FlatIdx |-> (-a1(p \div I)[p % I]) \div 2]
    IN  <<[l |-> k_l, m |-> k_mA, u |-> k_u],
          [l |-> [p \in FlatIdx |-> -k_l[p]], m |-> k_mB,
           u |-> [p \in FlatIdx |-> -k_u[p]]]>>

spmatrices_diff(dt) ==
    LET I == r_bins
        J == E_bins
        a1(j) == r_alpha1(dt, DropFirst(Arange(I)), j)
        a2(j) == r_alpha2(dt, Arange(I), j)
        a3(j) == r_alpha3(dt, DropLast(Arange(I)), j)
        k_u == [p \in FlatIdx |->
                  IF p % I <= I - 2 THEN (-a3(p \div I)[p % I]) \div 2 ELSE 0]
        k_mA == [p \in FlatIdx |-> One + a2(p \div I)[p % I] \div 2]
        k_mB == [p \in FlatIdx |-> One - a2(p \div I)[p % I] \div 2]
        k_l == [p \in FlatIdx |->
                  IF p % I <= I - 2 THEN (-a1(p \div I)[p % I]) \div 2 ELSE 0]
    IN  <<[l |-> k_l, m |-> k_mA, u |-> k_u],
          [l |-> [p \in FlatIdx |-> -k_l[p]], m |-> k_mB,
           u |-> [p \in FlatIdx |-> -k_u[p]]]>>

\* M.dot(x)
MatDot(M, x) ==
    LET n == Size(x)
    IN  [p \in 0 .. (n - 1) |->
            (IF p > 0 THEN Mul(M.l[p - 1], x[p - 1]) ELSE 0)
          + Mul(M.m[p], x[p])
          + (IF p < n - 1 THEN Mul(M.u[p], x[p + 1]) ELSE 0)]

\* sparse.linalg.spsolve(M, rhs) for a tridiagonal M: elimination of the
\* sub-diagonal (SolveDown gives, row by row, the pivot and the reduced
\* right-hand side), then back substitution (SolveUp).
RECURSIVE SolveDown(_, _, _, _)
SolveDown(M, rhs, p, acc) ==
    IF p = Size(rhs) THEN acc
    ELSE LET den == IF p = 0 THEN M.m[0]
                    ELSE M.m[p] - Mul(M.l[p - 1], Div(M.u[p - 1], acc[p][1]))
             dp == IF p = 0 THEN Div(rhs[0], den)
                   ELSE Div(rhs[p] - Mul(M.l[p - 1], acc[p][2]), den)
         IN  SolveDown(M, rhs, p + 1, Append(acc, <<den, dp>>))

RECURSIVE SolveUp(_, _, _, _)
SolveUp(M, down, p, acc) ==
    IF p < 0 THEN acc
    ELSE LET x == IF p = Len(down) - 1 THEN down[p + 1][2]
                  ELSE down[p + 1][2]
                         - Mul(Div(M.u[p], down[p + 1][1]), acc[1])
         IN  SolveUp(M, down, p - 1, <<x>> \o acc)

spsolve(M, rhs) ==
    LET down == SolveDown(M, rhs, 0, << >>)
        x == SolveUp(M, down, Size(rhs) - 1, << >>)
    IN  [p \in 0 .. (Size(rhs) - 1) |-> x[p + 1]]

\* psi.flatten('C'), psi.flatten('F') and np.reshape(x, (I,J), order).
FlattenC(a) == [p \in FlatIdx |-> a[p \div E_bins][p % E_bins]]

FlattenF(a) == [p \in FlatIdx |-> a[p % r_bins][p \div r_bins]]

ReshapeC(x) == [i \in RIdx |-> [j \in EIdx |-> x[i * E_bins + j]]]

ReshapeF(x) == [i \in RIdx |-> [j \in EIdx |-> x[j * r_bins + i]]]

\* --------------------------------------------------------------- state

\* None and a set value of a field that starts as None.
NoneVal == << >>

Some(x) == <<x>>

Val(o) == o[1]

\* max_t of cn_2D: the ceiling on the total number of iterations.
max_t == 10000

\* 1/stability_tol of cn_2D (stability_tol = 1.0e-5).
stability_tol_inv == 100000

\* Seconds in a year in the model's time units (the factor of
\* (x*units.Unit('yr')).to('s')).
SecPerYr == Pow2(2)

yr_to_s(x) == x * SecPerYr

\* Largest max_t_part a call is made with.
MaxInner == 2

VARIABLES
    pc,                 \* where the call of solveElectrons stands
    args,               \* the arguments of the pending call
    benchmark_flag, const_Delta_t, animation_flag,
    effect, Q, Delta_t, Delta_ti, smallest_Delta_t, max_t_part,
    Delta_t_reduction, snapshots, electrons,
    loss_AB, diff_AB,   \* (loss_A, loss_B) and (diff_A, diff_B) of cn_2D
    psi, psi_prev,
    convergence_check, stability_check, loss_ts_check, diff_ts_check,
    ts_check, benchmark_check, rel_diff_check,
    t, t_part, t_elapsed,
    result              \* what solveElectrons returned

vars == <<pc, args, benchmark_flag, const_Delta_t, animation_flag,
          effect, Q, Delta_t, Delta_ti, smallest_Delta_t, max_t_part,
          Delta_t_reduction, snapshots, electrons, loss_AB, diff_AB,
          psi, psi_prev, convergence_check, stability_check, loss_ts_check,
          diff_ts_check, ts_check, benchmark_check, rel_diff_check,
          t, t_part, t_elapsed, result>>

Interior == 0 .. (r_bins - 2)

ZeroGrid == [i \in RIdx |-> [j \in EIdx |-> 0]]

\* self.loss_ts, self.diff_ts, loss_min and diff_min of solveElectrons.
loss_ts == [i \in RIdx |-> [j \in EIdx |-> Div(E_grid[j], b[i][j])]]

diff_ts == [i \in RIdx |-> [j \in EIdx |->
              Div(Mul(r_grid[1] - r_grid[0], r_grid[1] - r_grid[0]), D[i][j])]]

RECURSIVE SetMin(_)
SetMin(S) == LET x == CHOOSE y \in S : TRUE
             IN  IF S = {x} THEN x ELSE Min2(x, SetMin(S \ {x}))

loss_min == SetMin({loss_ts[i][j] : i \in RIdx, j \in EIdx})

diff_min == SetMin({diff_ts[i][j] : i \in RIdx, j \in EIdx})

\* The samples a call is made with: the density (already in GeV/cm^3), the
\* WIMP mass and the particle spectra, one positive at every energy and one
\* that is zero at the highest energy.
rho_sample == [i \in RIdx |-> One + (One \div 2) * (r_bins - 1 - i)]

mx == One

Q_positive == [j \in EIdx |-> (One \div 2) * (j + 1)]

Q_cutoff == [j \in EIdx |-> IF j = E_bins - 1 THEN 0 ELSE One]

\* The arguments of solveElectrons that vary between calls.
ArgSets ==
    [lossOnly : BOOLEAN,
     rho_sample : {rho_sample},
     dBdr_finite : {TRUE},
     Q_sample : {Q_positive},
     mode_exp : {2},
     Delta_t_min : {(3 * One) \div 8},
     Delta_ti : {One \div 4, 4 * One},
     max_t_part : 0 .. MaxInner,
     Delta_t_reduction : {One \div 2}]

\* Calls whose time step comes to equal Delta_t_min after reductions.
ArgsFloor ==
    [lossOnly : BOOLEAN,
     rho_sample : {rho_sample},
     dBdr_finite : {TRUE},
     Q_sample : {Q_positive},
     mode_exp : {2},
     Delta_t_min : {One \div 4},
     Delta_ti : {4 * One},
     max_t_part : {1},
     Delta_t_reduction : {One \div 2}]

\* Calls with a spectrum that is zero at the highest energy.
ArgsCutoff ==
    [lossOnly : BOOLEAN,
     rho_sample : {rho_sample},
     dBdr_finite : {TRUE},
     Q_sample : {Q_cutoff},
     mode_exp : {2},
     Delta_t_min : {(3 * One) \div 8},
     Delta_ti : {4 * One},
     max_t_part : {1},
     Delta_t_reduction : {One \div 2}]

\* A density sample with negative entries.
rho_negative == [i \in RIdx |-> 0 - rho_sample[i]]

\* Calls with the negative densities, and loss-only calls with a NaN in
\* dBdr_sample (self.dDdr, a product with dBdr, is then not finite; a
\* loss-only solve never reads it).
ArgsFaulty ==
    [lossOnly : BOOLEAN,
     rho_sample : {rho_negative},
     dBdr_finite : {TRUE},
     Q_sample : {Q_positive},
     mode_exp : {2},
     Delta_t_min : {(3 * One) \div 8},
     Delta_ti : {4 * One},
     max_t_part : {1},
     Delta_t_reduction : {One \div 2}]
      \cup
    [lossOnly : {TRUE},
     rho_sample : {rho_sample},
     dBdr_finite : {FALSE},
     Q_sample : {Q_positive},
     mode_exp : {2},
     Delta_t_min : {(3 * One) \div 8},
     Delta_ti : {4 * One},
     max_t_part : {1},
     Delta_t_reduction : {One \div 2}]

\* (benchmark_flag, const_Delta_t, animation_flag) of __init__ with the
\* arguments of the call of solveElectrons that follows.
Calls ==
    (BOOLEAN \X BOOLEAN \X {FALSE} \X ArgSets)
      \cup ({FALSE} \X {FALSE} \X {FALSE} \X ArgsFloor)
      \cup ({c \in BOOLEAN \X BOOLEAN \X {FALSE} \X ArgsCutoff :
                  ~(c[1] /\ c[2])})

\* The same with animation: snapshots are stored.
AnimCalls ==
    (BOOLEAN \X BOOLEAN \X {TRUE} \X ArgSets)
      \cup ({FALSE} \X {FALSE} \X {TRUE}
               \X {a \in ArgsFloor : a.lossOnly})

\* Calls with arguments the solver should not accept.
FaultyCalls == BOOLEAN \X BOOLEAN \X {FALSE} \X ArgsFaulty

\* The solver object after __init__, with a call of solveElectrons pending.
InitWith(calls) ==
    /\ pc = "constructed"
    /\ \E c \in calls :
          /\ benchmark_flag = c[1]
          /\ const_Delta_t = c[2]
          /\ animation_flag = c[3]
          /\ args = c[4]
    /\ effect = NoneVal
    /\ Q = NoneVal
    /\ Delta_t = NoneVal
    /\ Delta_ti = NoneVal
    /\ smallest_Delta_t = NoneVal
    /\ max_t_part = NoneVal
    /\ Delta_t_reduction = NoneVal
    /\ snapshots = NoneVal
    /\ electrons = NoneVal
    /\ loss_AB = NoneVal
    /\ diff_AB = NoneVal
    /\ psi = NoneVal
    /\ psi_prev = NoneVal
    /\ convergence_check = FALSE
    /\ stability_check = FALSE
    /\ loss_ts_check = FALSE
    /\ diff_ts_check = FALSE
    /\ ts_check = FALSE
    /\ benchmark_check = FALSE
    /\ rel_diff_check = FALSE
    /\ t = 0
    /\ t_part = 0
    /\ t_elapsed = 0
    /\ result = NoneVal

Init == InitWith(Calls)

InitAnim == InitWith(AnimCalls)

InitFaulty == InitWith(FaultyCalls)

\* ------------------------------------------------------- solveElectrons

\* self.Q: 1/mode_exp * (rho/mx)**mode_exp * Q_sample, an outer product.
SourceQ(a) ==
    [i \in RIdx |-> [j \in EIdx |->
        Mul(Mul(Div(One, a.mode_exp * One),
                IPow(Div(a.rho_sample[i], mx), a.mode_exp)),
            a.Q_sample[j])]]

\* The effect chosen the wrong way round.
EffectOf_Inverted(a) == IF a.lossOnly THEN "all" ELSE "loss"

\* self.effect = "loss" if lossOnly else "all"
EffectOf(a) == IF a.lossOnly THEN "loss" ELSE "all"

\* Whether every entry of self.dDdr is finite: set_dDdr multiplies by dBdr,
\* so it is when dBdr_sample is.
dDdr_finite(a) == a.dBdr_finite

\* Whether the densities passed are all non-negative.
rho_valid(a) == \A i \in RIdx : a.rho_sample[i] >= 0

\* The smallest of both timescales taken whatever the effect.
ConstDelta_ti_AnyEffect(eff) == Min2(loss_min, diff_min)

\* Delta_ti of constant step runs: the smallest relevant timescale.
ConstDelta_ti(eff) ==
    IF eff = "loss" THEN loss_min
    ELSE IF eff = "diffusion" THEN diff_min
    ELSE Min2(loss_min, diff_min)

stability_factor(bench) == IF bench THEN One \div 10 ELSE One

adi_factor(eff) == IF eff \in {"all"} THEN One \div 2 ELSE One

\* solveElectrons up to its call of cn_2D.
solveElectrons ==
    /\ pc = "constructed"
    /\ effect' = EffectOf(args)
    /\ Q' = SourceQ(args)
    /\ const_Delta_t' = IF benchmark_flag = TRUE THEN TRUE ELSE const_Delta_t
    /\ IF const_Delta_t' = FALSE
       THEN /\ Delta_ti' = yr_to_s(args.Delta_ti)
            /\ smallest_Delta_t' = Some(yr_to_s(args.Delta_t_min))
            /\ max_t_part' = Some(args.max_t_part)
            /\ Delta_t_reduction' = Some(args.Delta_t_reduction)
       ELSE /\ Delta_ti' = ConstDelta_ti(effect')
            /\ UNCHANGED <<smallest_Delta_t, max_t_part, Delta_t_reduction>>
    /\ Delta_t' = Mul(Mul(Delta_ti', adi_factor(effect')),
                      stability_factor(benchmark_flag))
    /\ pc' = "cn_2D"
    /\ args' = NoneVal
    /\ UNCHANGED <<benchmark_flag, animation_flag, snapshots, electrons,
                   loss_AB, diff_AB, psi, psi_prev, convergence_check,
                   stability_check, loss_ts_check, diff_ts_check, ts_check,
                   benchmark_check, rel_diff_check, t, t_part, t_elapsed,
                   result>>

\* ---------------------------------------------------------------- cn_2D

\* The boundary condition left out.
SetBoundary_Skipped(a) == a

\* psi with psi[-1,:] = 0.
SetBoundary(a) ==
    [i \in RIdx |-> [j \in EIdx |-> IF i = r_bins - 1 THEN 0 ELSE a[i][j]]]

\* psi.copy()[:-1]
InteriorRows(a) == [i \in Interior |-> a[i]]

\* What np.empty may hold: nothing of it is read before it is assigned.
EmptyGrids == {ZeroGrid, [i \in RIdx |-> [j \in EIdx |-> One]]}

\* The snapshot taken of the whole grid, without the [:-1] slice.
Snapshot_WholeGrid(p, dt) == <<p, dt>>

\* snapshot = (psi.copy()[:-1], self.Delta_t)
Snapshot(p, dt) == <<InteriorRows(p), dt>>

\* The list of snapshots started empty.
InitialSnapshots_Empty(p, dt) == << >>

\* self.snapshots = [snapshot], before the main loop.
InitialSnapshots(p, dt) == <<Snapshot(p, dt)>>

\* psi made an alias of Q (no copy): the boundary condition lands in Q too.
SourceAfterInit_Aliased(q) == SetBoundary(q)

\* Q after psi = np.array(Q) and psi[-1,:] = 0.0: np.array copies, so the
\* assignment to psi leaves Q as it was.
SourceAfterInit(q) == q

\* The preliminary setup of cn_2D, up to the head of the main loop.
cn_setup ==
    /\ pc = "cn_2D"
    /\ loss_AB' = IF effect \in {"loss", "all"}
                  THEN spmatrices_loss(Delta_t) ELSE loss_AB
    /\ diff_AB' = IF effect \in {"diffusion", "all"}
                  THEN spmatrices_diff(Delta_t) ELSE diff_AB
    /\ psi' = SetBoundary(Q)
    /\ Q' = SourceAfterInit(Q)
    /\ convergence_check' = FALSE
    /\ stability_check' = FALSE
    /\ loss_ts_check' = FALSE
    /\ diff_ts_check' = FALSE
    /\ ts_check' = FALSE
    /\ benchmark_check' = FALSE
    /\ rel_diff_check' = FALSE
    /\ psi_prev' \in EmptyGrids
    /\ t' = 0
    /\ t_part' = 0
    /\ t_elapsed' = 0
    /\ snapshots' = IF animation_flag = TRUE
                    THEN InitialSnapshots(psi', Delta_t)
                    ELSE snapshots
    /\ pc' = "loop"
    /\ UNCHANGED <<args, benchmark_flag, const_Delta_t, animation_flag,
                   effect, Delta_t, Delta_ti, smallest_Delta_t,
                   max_t_part, Delta_t_reduction, electrons, result>>

\* The loop test with the ceiling off by one (t <= max_t).
LoopCondition_OffByOne == ~convergence_check /\ t <= max_t

\* The while condition of the main loop.
LoopCondition == ~convergence_check /\ t < max_t

\* bool(np.all(np.abs(psi[:-1]/psi_prev[:-1]-1.0) < stability_tol))
RelDiff(p, pp) ==
    \A i \in Interior, j \in EIdx :
        FAbsDiffBelow(FDiv(p[i][j], pp[i][j]), One, stability_tol_inv)

\* The difference divided by Delta_ti, the time step the caller asked
\* for, instead of the Delta_t of the step.
dpsidt_ByDelta_ti(p, pp, dt) ==
    [i \in Interior |-> [j \in EIdx |-> Div(p[i][j] - pp[i][j], Delta_ti)]]

\* dpsidt = (psi[:-1]-psi_prev[:-1])/self.Delta_t
dpsidt(p, pp, dt) ==
    [i \in Interior |-> [j \in EIdx |-> Div(p[i][j] - pp[i][j], dt)]]

\* np.all(np.abs(psi[:-1]/dpsidt) > ts[:-1])
TsCheck(p, pp, dt, ts) ==
    LET d == dpsidt(p, pp, dt)
    IN  \A i \in Interior, j \in EIdx :
            FAbsAbove(FDiv(p[i][j], d[i][j]), ts[i][j])

\* The benchmark condition tested on the first interior row only.
BenchmarkCheck_FirstRow(p, pp, dt) ==
    LET d == dpsidt(p, pp, dt)
    IN  \A j \in EIdx : Abs(d[0][j]) = 0

\* np.all(np.abs(dpsidt) == 0)
BenchmarkCheck(p, pp, dt) ==
    LET d == dpsidt(p, pp, dt)
    IN  \A i \in Interior, j \in EIdx : Abs(d[i][j]) = 0

\* The 'all' case combined from the loss timescale alone.
TsCombined_LossOnly(eff, l, d, old) ==
    IF eff = "loss" THEN l
    ELSE IF eff = "diffusion" THEN d
    ELSE IF eff = "all" THEN l
    ELSE old

\* ts_check for the effect in use (unchanged for any other value).
TsCombined(eff, l, d, old) ==
    IF eff = "loss" THEN l
    ELSE IF eff = "diffusion" THEN d
    ELSE IF eff = "all" THEN l /\ d
    ELSE old

\* The checks started one iteration early (t > 0).
ChecksActive_Early(tt) == tt > 0

\* if t>1: the checks are made from the third iteration on.
ChecksActive(tt) == tt > 1

\* The inner-iteration limit compared with >= instead of >.
StabilityAccel_Inclusive(tp, mtp) == tp >= mtp

\* stability_check of the accelerated method: t_part > max_t_part.
StabilityAccel(tp, mtp) == tp > mtp

\* The loop head and the checks of an iteration.
loop_test ==
    /\ pc = "loop"
    /\ LoopCondition
    /\ IF ChecksActive(t)
       THEN /\ rel_diff_check' = RelDiff(psi, psi_prev)
            /\ stability_check' = IF const_Delta_t THEN rel_diff_check'
                                  ELSE StabilityAccel(t_part, Val(max_t_part))
            /\ loss_ts_check' = TsCheck(psi, psi_prev, Delta_t, loss_ts)
            /\ diff_ts_check' = TsCheck(psi, psi_prev, Delta_t, diff_ts)
            /\ ts_check' = TsCombined(effect, loss_ts_check', diff_ts_check',
                                      ts_check)
            /\ benchmark_check' = IF benchmark_flag = TRUE
                                  THEN BenchmarkCheck(psi, psi_prev, Delta_t)
                                  ELSE benchmark_check
       ELSE UNCHANGED <<rel_diff_check, stability_check, loss_ts_check,
                        diff_ts_check, ts_check, benchmark_check>>
    /\ pc' = "decide"
    /\ UNCHANGED <<args, benchmark_flag, const_Delta_t, animation_flag,
                   effect, Q, Delta_t, Delta_ti, smallest_Delta_t,
                   max_t_part, Delta_t_reduction, snapshots, electrons,
                   loss_AB, diff_AB, psi, psi_prev, convergence_check,
                   t, t_part, t_elapsed, result>>

\* if stability_check: ... of an iteration: which branch sets
\* convergence_check and breaks, and which reduces Delta_t.
Accelerated == ~benchmark_flag /\ ~const_Delta_t

\* The accelerated method allowed to converge at any Delta_t.
Breaks_AnyDelta_t ==
    /\ stability_check
    /\ IF benchmark_flag THEN ts_check /\ benchmark_check
       ELSE IF const_Delta_t THEN ts_check
       ELSE ts_check \/ rel_diff_check

Breaks ==
    /\ stability_check
    /\ IF benchmark_flag THEN ts_check /\ benchmark_check
       ELSE IF const_Delta_t THEN ts_check
       ELSE IF Delta_t > Val(smallest_Delta_t) THEN FALSE
       ELSE IF Delta_t < Val(smallest_Delta_t)
            THEN ts_check \/ rel_diff_check
       ELSE FALSE

\* (loss_A, loss_B) after the reconstruction with the new Delta_t:
\* if self.effect in {"loss","all"}: (loss_A,loss_B) = self.spmatrices_loss()
RebuiltLoss(eff, dt, old) ==
    IF eff \in {"loss", "all"} THEN spmatrices_loss(dt) ELSE old

\* The diffusion matrices left as they were at a reduction.
RebuiltDiff_Stale(eff, dt, old) == old

\* if self.effect in {"diffusion","all"}: (diff_A,diff_B) = self.spmatrices_diff()
RebuiltDiff(eff, dt, old) ==
    IF eff \in {"diffusion", "all"} THEN spmatrices_diff(dt) ELSE old

\* Delta_t divided by the factor instead of multiplied.
ReducedDelta_t_Divided(dt, f) == Div(dt, f)

\* self.Delta_t *= Delta_t_reduction
ReducedDelta_t(dt, f) == Mul(dt, f)

\* The reduction made at Delta_t = smallest_Delta_t as well.
Reduces_AtFloorToo ==
    /\ stability_check
    /\ Accelerated
    /\ Delta_t >= Val(smallest_Delta_t)

\* The reduction made to wait for the timescale check as well.
Reduces_AwaitsTs ==
    /\ stability_check
    /\ ~benchmark_flag /\ ~const_Delta_t
    /\ Delta_t > Val(smallest_Delta_t)
    /\ ts_check

Reduces ==
    /\ stability_check
    /\ Accelerated
    /\ Delta_t > Val(smallest_Delta_t)

\* The convergence test and the Delta_t switch of an iteration.
decide ==
    /\ pc = "decide"
    /\ IF Breaks
       THEN /\ convergence_check' = TRUE
            /\ pc' = "break"
            /\ UNCHANGED <<Delta_t, t_part, loss_AB, diff_AB>>
       ELSE /\ pc' = "step"
            /\ UNCHANGED convergence_check
            /\ IF Reduces
               THEN /\ Delta_t' = ReducedDelta_t(Delta_t,
                                              Val(Delta_t_reduction))
                    /\ t_part' = 0
                    /\ loss_AB' = RebuiltLoss(effect, Delta_t', loss_AB)
                    /\ diff_AB' = RebuiltDiff(effect, Delta_t', diff_AB)
               ELSE UNCHANGED <<Delta_t, t_part, loss_AB, diff_AB>>
    /\ UNCHANGED <<args, benchmark_flag, const_Delta_t, animation_flag,
                   effect, Q, Delta_ti, smallest_Delta_t, max_t_part,
                   Delta_t_reduction, snapshots, electrons, psi, psi_prev,
                   stability_check, loss_ts_check, diff_ts_check, ts_check,
                   benchmark_check, rel_diff_check, t, t_elapsed, result>>

\* The energy half-step: rhs = loss_B.dot(psi.flatten('C')) + Q.flatten('C')*dt,
\* psi = reshape(spsolve(loss_A, rhs), order='C').
EnergySweep(p, q, dt, AB) ==
    LET Bpsi == MatDot(AB[2], FlattenC(p))
        rhs == [k \in FlatIdx |-> Bpsi[k] + Mul(FlattenC(q)[k], dt)]
    IN  ReshapeC(spsolve(AB[1], rhs))

\* The radial half-step with Q flattened row-major, as in the energy one.
RadialSweep_RowMajorSource(p, q, dt, AB) ==
    LET Bpsi == MatDot(AB[2], FlattenF(p))
        rhs == [k \in FlatIdx |-> Bpsi[k] + Mul(FlattenC(q)[k], dt)]
    IN  ReshapeF(spsolve(AB[1], rhs))

\* The radial half-step, on the column-major flattening.
RadialSweep(p, q, dt, AB) ==
    LET Bpsi == MatDot(AB[2], FlattenF(p))
        rhs == [k \in FlatIdx |-> Bpsi[k] + Mul(FlattenF(q)[k], dt)]
    IN  ReshapeF(spsolve(AB[1], rhs))

\* psi after the matrix solutions of one iteration, before the boundary
\* condition is implemented.
Solved(p, q, dt, eff, lAB, dAB) ==
    LET p1 == IF eff \in {"loss", "all"} THEN EnergySweep(p, q, dt, lAB)
              ELSE p
    IN  IF eff \in {"diffusion", "all"} THEN RadialSweep(p1, q, dt, dAB)
        ELSE p1

\* The rest of an iteration: store psi_prev, update psi, implement the
\* boundary condition, update the counters, store the snapshot.
cn_step ==
    /\ pc = "step"
    /\ psi_prev' = psi
    /\ psi' = SetBoundary(Solved(psi, Q, Delta_t, effect, loss_AB, diff_AB))
    /\ t_elapsed' = t_elapsed + Delta_t
    /\ t' = t + 1
    /\ t_part' = t_part + 1
    /\ snapshots' = IF animation_flag = TRUE
                    THEN Append(snapshots, Snapshot(psi', Delta_t))
                    ELSE snapshots
    /\ pc' = "loop"
    /\ UNCHANGED <<args, benchmark_flag, const_Delta_t, animation_flag,
                   effect, Q, Delta_t, Delta_ti, smallest_Delta_t,
                   max_t_part, Delta_t_reduction, electrons, loss_AB,
                   diff_AB, convergence_check, stability_check,
                   loss_ts_check, diff_ts_check, ts_check, benchmark_check,
                   rel_diff_check, result>>

\* The array returned as it is.
Transpose_Missing(a) == a

\* self.cn_2D(self.Q).transpose()
Transpose(a) == [j \in EIdx |-> [i \in RIdx |-> a[i][j]]]

\* The end of the loop (its condition fails, or a break): cn_2D stores
\* self.electrons and returns psi, solveElectrons returns its transpose.
cn_return ==
    /\ pc \in {"loop", "break"}
    /\ pc = "loop" => ~LoopCondition
    /\ electrons' = psi
    /\ result' = Transpose(psi)
    /\ pc' = "done"
    /\ UNCHANGED <<args, benchmark_flag, const_Delta_t, animation_flag,
                   effect, Q, Delta_t, Delta_ti, smallest_Delta_t,
                   max_t_part, Delta_t_reduction, snapshots, loss_AB,
                   diff_AB, psi, psi_prev, convergence_check,
                   stability_check, loss_ts_check, diff_ts_check, ts_check,
                   benchmark_check, rel_diff_check, t, t_part, t_elapsed>>

Next ==
    \/ solveElectrons
    \/ cn_setup
    \/ loop_test
    \/ decide
    \/ cn_step
    \/ cn_return

Spec == Init /\ [][Next]_vars

\* The same solver, constructed with animation_flag = True.
SpecAnim == InitAnim /\ [][Next]_vars

\* The same solver, called with a negative density or a NaN in dBdr_sample.
SpecFaulty == InitFaulty /\ [][Next]_vars

\* What the caller holds once solveElectrons has returned: the attributes
\* of the object that hold a flag, and the array returned. The flags of
\* cn_2D (convergence_check, benchmark_check, ...) are locals of cn_2D: they
\* are printed and are gone at return.
CallerView ==
    [benchmark_flag |-> benchmark_flag,
     const_Delta_t |-> const_Delta_t,
     animation_flag |-> animation_flag]

\* ------------------------------------------- dictionary_checks
\* A diffusion dictionary is the record of its six keys, each NoneVal when
\* the key is absent and Some(value) when present. diff_constant is in units
\* of 1e27 cm^2/s, photon_temp in units of 1e-4 K, diff_index is the
\* fraction <<numerator, denominator>>.
diff_constant_default == 30

photon_temp_default == 27255

diff_index_default == <<1, 3>>

diff_rmax_default == "2*Rvir"

\* The dictionaries check_diffusion is called with: every key absent or
\* present, loss_only with both values, diff_constant with two values.
DiffDicts ==
    [loss_only : {NoneVal, Some(FALSE), Some(TRUE)},
     photon_density : {NoneVal, Some(1)},
     photon_temp : {NoneVal, Some(30000)},
     diff_rmax : {NoneVal, Some("Rvir")},
     diff_constant : {NoneVal, Some(5), Some(diff_constant_default)},
     diff_index : {NoneVal, Some(<<1, 2>>)}]

\* if not 'key' in diff_dict.keys(): diff_dict['key'] = v
WithDefault(o, v) == IF o = NoneVal THEN Some(v) ELSE o

\* The caller's diff_constant kept when loss_only is set.
check_diffusion_KeepsConstant(diff_dict) ==
    [diff_dict EXCEPT
        !.loss_only = WithDefault(@, FALSE),
        !.photon_density = WithDefault(@, 0),
        !.photon_temp = WithDefault(@, photon_temp_default),
        !.diff_rmax = WithDefault(@, diff_rmax_default),
        !.diff_constant = WithDefault(@, diff_constant_default),
        !.diff_index = WithDefault(@, diff_index_default)]

\* The dictionary check_diffusion returns.
check_diffusion(diff_dict) ==
    LET d == [diff_dict EXCEPT
                 !.loss_only = WithDefault(@, FALSE),
                 !.photon_density = WithDefault(@, 0),
                 !.photon_temp = WithDefault(@, photon_temp_default),
                 !.diff_rmax = WithDefault(@, diff_rmax_default)]
    IN  IF Val(d.loss_only)
        THEN [d EXCEPT !.diff_constant = Some(0)]
        ELSE [d EXCEPT
                 !.diff_constant = WithDefault(@, diff_constant_default),
                 !.diff_index = WithDefault(@, diff_index_default)]

\* A call of check_diffusion pending: args is the dictionary as the caller
\* wrote it, and no solver object is involved.
InitDiffusion ==
    /\ pc = "check_diffusion"
    /\ args \in DiffDicts
    /\ benchmark_flag = FALSE
    /\ const_Delta_t = FALSE
    /\ animation_flag = FALSE
    /\ effect = NoneVal
    /\ Q = NoneVal
    /\ Delta_t = NoneVal
    /\ Delta_ti = NoneVal
    /\ smallest_Delta_t = NoneVal
    /\ max_t_part = NoneVal
    /\ Delta_t_reduction = NoneVal
    /\ snapshots = NoneVal
    /\ electrons = NoneVal
    /\ loss_AB = NoneVal
    /\ diff_AB = NoneVal
    /\ psi = NoneVal
    /\ psi_prev = NoneVal
    /\ convergence_check = FALSE
    /\ stability_check = FALSE
    /\ loss_ts_check = FALSE
    /\ diff_ts_check = FALSE
    /\ ts_check = FALSE
    /\ benchmark_check = FALSE
    /\ rel_diff_check = FALSE
    /\ t = 0
    /\ t_part = 0
    /\ t_elapsed = 0
    /\ result = NoneVal

\* The call: result is the dictionary returned.
check_diffusion_call ==
    /\ pc = "check_diffusion"
    /\ result' = check_diffusion(args)
    /\ pc' = "checked"
    /\ UNCHANGED <<args, benchmark_flag, const_Delta_t, animation_flag,
                   effect, Q, Delta_t, Delta_ti, smallest_Delta_t,
                   max_t_part, Delta_t_reduction, snapshots, electrons,
                   loss_AB, diff_AB, psi, psi_prev, convergence_check,
                   stability_check, loss_ts_check, diff_ts_check, ts_check,
                   benchmark_check, rel_diff_check, t, t_part, t_elapsed>>

NextDiffusion == check_diffusion_call

SpecDiffusion == InitDiffusion /\ [][NextDiffusion]_vars

\* ------------------------------------------- floating point
\* The arrays of cn_2D are float64: a value is rounded to a fixed number of
\* significant bits wherever it lies, so that a product with a power of two
\* is exact. A float is <<m, e>>, the number m * 2^e, with m = 0 and e = 0 or
\* 2^(MantBits-1) <= |m| < 2^MantBits; the exponent is not bounded (no
\* overflow, no subnormal numbers).
MantBits == 8

RECURSIVE BitLen(_)
BitLen(n) == IF n = 0 THEN 0 ELSE 1 + BitLen(n \div 2)

Sign(x) == IF x < 0 THEN -1 ELSE 1

\* n / 2^k rounded to the nearest integer, ties to even.
RoundShift(n, k) ==
    LET q == n \div Pow2(k)
        r == n % Pow2(k)
        half == Pow2(k - 1)
    IN  IF r > half \/ (r = half /\ q % 2 = 1) THEN q + 1 ELSE q

\* The float nearest to sgn * n * 2^e, n >= 0.
FlNorm(sgn, n, e) ==
    IF n = 0 THEN <<0, 0>>
    ELSE LET len == BitLen(n)
         IN  IF len > MantBits
             THEN LET k == len - MantBits
                      q == RoundShift(n, k)
                  IN  IF q = Pow2(MantBits)
                      THEN <<sgn * Pow2(MantBits - 1), e + k + 1>>
                      ELSE <<sgn * q, e + k>>
             ELSE <<sgn * n * Pow2(MantBits - len), e - (MantBits - len)>>

\* The float of a fixed-point value of the model, and of an integer.
ToFloat(x) == FlNorm(Sign(x), Abs(x), -FracBits)

IntToFloat(n) == FlNorm(Sign(n), Abs(n), 0)

FlNeg(a) == <<-a[1], a[2]>>

FlAbs(a) == <<Abs(a[1]), a[2]>>

FlMul(a, c) == FlNorm(Sign(a[1]) * Sign(c[1]), Abs(a[1]) * Abs(c[1]),
                      a[2] + c[2])

\* a + c: the exact sum rounded; a term more than MantBits + 1 binary
\* places below the other does not change it.
FlAdd(a, c) ==
    IF a[1] = 0 THEN c
    ELSE IF c[1] = 0 THEN a
    ELSE IF a[2] - c[2] > MantBits + 1 THEN a
    ELSE IF c[2] - a[2] > MantBits + 1 THEN c
    ELSE LET e == Min2(a[2], c[2])
             sum == a[1] * Pow2(a[2] - e) + c[1] * Pow2(c[2] - e)
         IN  FlNorm(Sign(sum), Abs(sum), e)

FlSub(a, c) == FlAdd(a, FlNeg(c))

\* a / c for c # 0: the quotient to MantBits + 3 bits and a sticky bit,
\* rounded.
FlDiv(a, c) ==
    LET num == Abs(a[1]) * Pow2(MantBits + 2)
        q == num \div Abs(c[1])
        sticky == IF num % Abs(c[1]) = 0 THEN 0 ELSE 1
    IN  FlNorm(Sign(a[1]) * Sign(c[1]), 2 * q + sticky,
               a[2] - c[2] - (MantBits + 2) - 1)

FlLess(a, c) == FlSub(a, c)[1] < 0

\* The IEEE quotient with its kind, as FDiv: 0 finite, 1 inf, 2 nan.
FlDivIEEE(a, c) ==
    IF c[1] # 0 THEN <<0, FlDiv(a, c)>>
    ELSE IF a[1] # 0 THEN <<1, <<0, 0>>>>
    ELSE <<2, <<0, 0>>>>

FlGrid(a) == [i \in DOMAIN a |-> [j \in DOMAIN a[i] |-> ToFloat(a[i][j])]]

\* A float, and an array of floats, times two.
Double(a) == IF a[1] = 0 THEN a ELSE <<a[1], a[2] + 1>>

DoubleGrid(a) == [i \in DOMAIN a |-> [j \in DOMAIN a[i] |-> Double(a[i][j])]]

\* ------------------------------------------- cn_2D on floats
\* The operations of cn_2D on psi, psi_prev and Q as arrays of floats. The
\* matrices and Delta_t are those of the model above, converted where they
\* meet psi.
FlZero == <<0, 0>>

\* The boundary row set to one instead of zero.
FlSetBoundary_Unit(a) ==
    [i \in RIdx |-> [j \in EIdx |->
        IF i = r_bins - 1 THEN ToFloat(One) ELSE a[i][j]]]

\* psi[-1,:] = 0
FlSetBoundary(a) ==
    [i \in RIdx |-> [j \in EIdx |->
        IF i = r_bins - 1 THEN FlZero ELSE a[i][j]]]

FlEmptyGrids == {FlGrid(g) : g \in EmptyGrids}

\* M.dot(x)
FlMatDot(M, x) ==
    LET n == Size(x)
    IN  [p \in 0 .. (n - 1) |->
            FlAdd(FlAdd(IF p > 0
                        THEN FlMul(ToFloat(M.l[p - 1]), x[p - 1])
                        ELSE FlZero,
                        FlMul(ToFloat(M.m[p]), x[p])),
                  IF p < n - 1
                  THEN FlMul(ToFloat(M.u[p]), x[p + 1])
                  ELSE FlZero)]

\* sparse.linalg.spsolve(M, rhs), as SolveDown and SolveUp. Each row is
\* evaluated (row[2] = row[2], x = x) before the next one is taken up.
RECURSIVE FlSolveDown(_, _, _, _)
FlSolveDown(M, rhs, p, acc) ==
    IF p = Size(rhs) THEN acc
    ELSE LET den == IF p = 0 THEN ToFloat(M.m[0])
                    ELSE FlSub(ToFloat(M.m[p]),
                               FlMul(ToFloat(M.l[p - 1]),
                                     FlDiv(ToFloat(M.u[p - 1]), acc[p][1])))
             dp == IF p = 0 THEN FlDiv(rhs[0], den)
                   ELSE FlDiv(FlSub(rhs[p],
                                    FlMul(ToFloat(M.l[p - 1]), acc[p][2])),
                              den)
             row == <<den, dp>>
         IN  IF row[2] = row[2]
             THEN FlSolveDown(M, rhs, p + 1, Append(acc, row))
             ELSE acc

RECURSIVE FlSolveUp(_, _, _, _)
FlSolveUp(M, down, p, acc) ==
    IF p < 0 THEN acc
    ELSE LET x == IF p = Len(down) - 1 THEN down[p + 1][2]
                  ELSE FlSub(down[p + 1][2],
                             FlMul(FlDiv(ToFloat(M.u[p]), down[p + 1][1]),
                                   acc[1]))
         IN  IF x = x THEN FlSolveUp(M, down, p - 1, <<x>> \o acc)
             ELSE acc

Flspsolve(M, rhs) ==
    LET down == FlSolveDown(M, rhs, 0, << >>)
        x == FlSolveUp(M, down, Size(rhs) - 1, << >>)
    IN  [p \in 0 .. (Size(rhs) - 1) |-> x[p + 1]]

\* The energy half-step.
FlEnergySweep(p, q, dt, AB) ==
    LET Bpsi == FlMatDot(AB[2], FlattenC(p))
        rhs == [k \in FlatIdx |->
                  FlAdd(Bpsi[k], FlMul(FlattenC(q)[k], ToFloat(dt)))]
    IN  ReshapeC(Flspsolve(AB[1], rhs))

\* The radial half-step.
FlRadialSweep(p, q, dt, AB) ==
    LET Bpsi == FlMatDot(AB[2], FlattenF(p))
        rhs == [k \in FlatIdx |->
                  FlAdd(Bpsi[k], FlMul(FlattenF(q)[k], ToFloat(dt)))]
    IN  ReshapeF(Flspsolve(AB[1], rhs))

FlSolved(p, q, dt, eff, lAB, dAB) ==
    LET p1 == IF eff \in {"loss", "all"} THEN FlEnergySweep(p, q, dt, lAB)
              ELSE p
    IN  IF eff \in {"diffusion", "all"} THEN FlRadialSweep(p1, q, dt, dAB)
        ELSE p1

\* stability_tol = 1.0e-5
Fl_stability_tol == FlDiv(IntToFloat(1), IntToFloat(stability_tol_inv))

\* bool(np.all(np.abs(psi[:-1]/psi_prev[:-1]-1.0) < stability_tol))
FlRelDiff(p, pp) ==
    \A i \in Interior, j \in EIdx :
        LET q == FlDivIEEE(p[i][j], pp[i][j])
        IN  /\ q[1] = 0
            /\ FlLess(FlAbs(FlSub(q[2], IntToFloat(1))), Fl_stability_tol)

\* dpsidt = (psi[:-1]-psi_prev[:-1])/self.Delta_t
Fldpsidt(p, pp, dt) ==
    [i \in Interior |-> [j \in EIdx |->
        FlDiv(FlSub(p[i][j], pp[i][j]), ToFloat(dt))]]

\* np.all(np.abs(psi[:-1]/dpsidt) > ts[:-1])
FlTsCheck(p, pp, dt, ts) ==
    LET d == Fldpsidt(p, pp, dt)
    IN  \A i \in Interior, j \in EIdx :
            LET q == FlDivIEEE(p[i][j], d[i][j])
            IN  \/ q[1] = 1
                \/ q[1] = 0 /\ FlLess(ToFloat(ts[i][j]), FlAbs(q[2]))

\* np.all(np.abs(dpsidt) == 0)
FlBenchmarkCheck(p, pp, dt) ==
    LET d == Fldpsidt(p, pp, dt)
    IN  \A i \in Interior, j \in EIdx : d[i][j][1] = 0

\* The calls of the float runs: every mode, both effects.
FloatCalls == BOOLEAN \X BOOLEAN \X {FALSE} \X ArgSets

InitFloat == InitWith(FloatCalls)

\* solveElectrons up to its call of cn_2D, with self.Q an array of floats.
fl_solveElectrons ==
    /\ pc = "constructed"
    /\ effect' = EffectOf(args)
    /\ Q' = FlGrid(SourceQ(args))
    /\ const_Delta_t' = IF benchmark_flag = TRUE THEN TRUE ELSE const_Delta_t
    /\ IF const_Delta_t' = FALSE
       THEN /\ Delta_ti' = yr_to_s(args.Delta_ti)
            /\ smallest_Delta_t' = Some(yr_to_s(args.Delta_t_min))
            /\ max_t_part' = Some(args.max_t_part)
            /\ Delta_t_reduction' = Some(args.Delta_t_reduction)
       ELSE /\ Delta_ti' = ConstDelta_ti(effect')
            /\ UNCHANGED <<smallest_Delta_t, max_t_part, Delta_t_reduction>>
    /\ Delta_t' = Mul(Mul(Delta_ti', adi_factor(effect')),
                      stability_factor(benchmark_flag))
    /\ pc' = "cn_2D"
    /\ args' = NoneVal
    /\ UNCHANGED <<benchmark_flag, animation_flag, snapshots, electrons,
                   loss_AB, diff_AB, psi, psi_prev, convergence_check,
                   stability_check, loss_ts_check, diff_ts_check, ts_check,
                   benchmark_check, rel_diff_check, t, t_part, t_elapsed,
                   result>>

\* The preliminary setup of cn_2D.
fl_cn_setup ==
    /\ pc = "cn_2D"
    /\ loss_AB' = IF effect \in {"loss", "all"}
                  THEN spmatrices_loss(Delta_t) ELSE loss_AB
    /\ diff_AB' = IF effect \in {"diffusion", "all"}
                  THEN spmatrices_diff(Delta_t) ELSE diff_AB
    /\ psi' = FlSetBoundary(Q)
    /\ Q' = SourceAfterInit(Q)
    /\ convergence_check' = FALSE
    /\ stability_check' = FALSE
    /\ loss_ts_check' = FALSE
    /\ diff_ts_check' = FALSE
    /\ ts_check' = FALSE
    /\ benchmark_check' = FALSE
    /\ rel_diff_check' = FALSE
    /\ psi_prev' \in FlEmptyGrids
    /\ t' = 0
    /\ t_part' = 0
    /\ t_elapsed' = 0
    /\ pc' = "loop"
    /\ UNCHANGED <<args, benchmark_flag, const_Delta_t, animation_flag,
                   effect, Delta_t, Delta_ti, smallest_Delta_t, max_t_part,
                   Delta_t_reduction, snapshots, electrons, result>>

\* The loop head and the checks of an iteration.
fl_loop_test ==
    /\ pc = "loop"
    /\ LoopCondition
    /\ IF ChecksActive(t)
       THEN /\ rel_diff_check' = FlRelDiff(psi, psi_prev)
            /\ stability_check' = IF const_Delta_t THEN rel_diff_check'
                                  ELSE StabilityAccel(t_part, Val(max_t_part))
            /\ loss_ts_check' = FlTsCheck(psi, psi_prev, Delta_t, loss_ts)
            /\ diff_ts_check' = FlTsCheck(psi, psi_prev, Delta_t, diff_ts)
            /\ ts_check' = TsCombined(effect, loss_ts_check', diff_ts_check',
                                      ts_check)
            /\ benchmark_check' = IF benchmark_flag = TRUE
                                  THEN FlBenchmarkCheck(psi, psi_prev, Delta_t)
                                  ELSE benchmark_check
       ELSE UNCHANGED <<rel_diff_check, stability_check, loss_ts_check,
                        diff_ts_check, ts_check, benchmark_check>>
    /\ pc' = "decide"
    /\ UNCHANGED <<args, benchmark_flag, const_Delta_t, animation_flag,
                   effect, Q, Delta_t, Delta_ti, smallest_Delta_t,
                   max_t_part, Delta_t_reduction, snapshots, electrons,
                   loss_AB, diff_AB, psi, psi_prev, convergence_check,
                   t, t_part, t_elapsed, result>>

\* The rest of an iteration.
fl_cn_step ==
    /\ pc = "step"
    /\ psi_prev' = psi
    /\ psi' = FlSetBoundary(FlSolved(psi, Q, Delta_t, effect, loss_AB,
                                     diff_AB))
    /\ t_elapsed' = t_elapsed + Delta_t
    /\ t' = t + 1
    /\ t_part' = t_part + 1
    /\ pc' = "loop"
    /\ UNCHANGED <<args, benchmark_flag, const_Delta_t, animation_flag,
                   effect, Q, Delta_t, Delta_ti, smallest_Delta_t,
                   max_t_part, Delta_t_reduction, electrons, loss_AB,
                   diff_AB, convergence_check, stability_check,
                   loss_ts_check, diff_ts_check, ts_check, benchmark_check,
                   rel_diff_check, snapshots, result>>

NextFloat ==
    \/ fl_solveElectrons
    \/ fl_cn_setup
    \/ fl_loop_test
    \/ decide
    \/ fl_cn_step
    \/ cn_return

\* The solver with psi, psi_prev and Q in floating point, animation off.
SpecFloat == InitFloat /\ [][NextFloat]_vars

\* ---------------------------------------------------------------- claims

\* The call has entered cn_2D and its main loop has been set up.
InLoop == pc \in {"loop", "decide", "step", "break"}

\* The Delta_t solveElectrons hands to cn_2D.
InitialDelta_t ==
    Mul(Mul(Delta_ti, adi_factor(effect)), stability_factor(benchmark_flag))

\* C1: in every mode the main loop makes at most max_t = 10^4 iterations and
\* then returns: t never exceeds max_t, an iteration is only under way
\* while t < max_t, t grows by exactly one in the step that ends an
\* iteration and is otherwise left alone, and at the loop head with
\* t = max_t the only thing that can happen is the return.
C1_Ceiling ==
    /\ [](t \in 0 .. max_t)
    /\ [](pc \in {"decide", "step"} => t < max_t)
    /\ [](pc = "loop" /\ t >= max_t => ENABLED cn_return /\ ~ENABLED loop_test)
    /\ [](pc \in {"loop", "break"} => ENABLED Next)
    /\ [][pc = "step" => t' = t + 1]_vars
    /\ [][(pc \in {"loop", "decide", "break"}) => t' = t]_vars

\* A run that ends at the ceiling without having converged.
C1_Witness == pc = "done" /\ t = max_t /\ ~convergence_check

\* C2: the outer-boundary row of psi is zero at the start of every outer
\* iteration, through the iteration's tests, and at return (in psi, in
\* self.electrons and in the transposed result), however the loop ends.
C2_Boundary ==
    /\ pc \in {"loop", "decide", "step", "break", "done"} =>
          \A j \in EIdx : psi[r_bins - 1][j] = 0
    /\ pc = "done" =>
          \A j \in EIdx : electrons[r_bins - 1][j] = 0
                            /\ result[j][r_bins - 1] = 0

\* An iteration about to solve, whose solution has a non-zero outer row
\* before the boundary condition is implemented.
C2_Witness ==
    /\ pc = "step"
    /\ t >= 1
    /\ \E j \in EIdx :
          Solved(psi, Q, Delta_t, effect, loss_AB, diff_AB)[r_bins - 1][j] # 0

\* C3: in accelerated mode, an iteration that finds stability_check true and
\* Delta_t > smallest_Delta_t multiplies Delta_t by the reduction factor,
\* resets t_part to 0, rebuilds the matrices of every active effect with
\* the new Delta_t and goes on to the solve without declaring convergence;
\* nothing else in the loop changes Delta_t or the matrices.
C3_Reduction ==
    /\ [][(/\ pc = "decide"
           /\ ~benchmark_flag /\ ~const_Delta_t
           /\ stability_check
           /\ Delta_t > Val(smallest_Delta_t))
          => (/\ Delta_t' = Mul(Delta_t, Val(Delta_t_reduction))
              /\ t_part' = 0
              /\ convergence_check' = FALSE
              /\ pc' = "step"
              /\ effect \in {"loss", "all"} => loss_AB' = spmatrices_loss(Delta_t')
              /\ effect \in {"diffusion", "all"} => diff_AB' = spmatrices_diff(Delta_t'))]_vars
    /\ [][(pc \in {"loop", "step", "break"}) =>
            Delta_t' = Delta_t /\ loss_AB' = loss_AB /\ diff_AB' = diff_AB]_vars

\* The solve that follows a reduction: the step is below the initial one and
\* the inner counter stands at 0.
C3_Witness ==
    /\ pc = "step"
    /\ ~benchmark_flag /\ ~const_Delta_t
    /\ effect = "all"
    /\ t > 1
    /\ t_part = 0
    /\ Delta_t = Mul(InitialDelta_t, Val(Delta_t_reduction))

\* C4: in accelerated mode, an iteration that finds stability_check true and
\* Delta_t <= smallest_Delta_t (equality included) declares convergence
\* exactly when ts_check or rel_diff_check holds.
C4_FloorConverges ==
    [][(/\ pc = "decide"
        /\ ~benchmark_flag /\ ~const_Delta_t
        /\ stability_check
        /\ Delta_t <= Val(smallest_Delta_t))
       => (convergence_check' <=> (ts_check \/ rel_diff_check))]_vars

\* C5: in constant-Delta_t mode without benchmark, an iteration declares
\* convergence exactly when stability_check and ts_check both hold, where
\* from the third iteration on stability_check is rel_diff_check (every
\* interior |psi/psi_prev - 1| below 1e-5) and ts_check is loss_ts_check for
\* "loss" and loss_ts_check and diff_ts_check for "all".
C5_ConstConverges ==
    /\ [][(pc = "decide" /\ const_Delta_t /\ ~benchmark_flag)
          => (convergence_check' <=> (stability_check /\ ts_check))]_vars
    /\ [](pc = "decide" /\ const_Delta_t /\ ~benchmark_flag /\ t > 1
          => /\ stability_check = rel_diff_check
             /\ rel_diff_check =
                  (\A i \in Interior, j \in EIdx :
                      FAbsDiffBelow(FDiv(psi[i][j], psi_prev[i][j]), One,
                                    stability_tol_inv))
             /\ loss_ts_check = TsCheck(psi, psi_prev, Delta_t, loss_ts)
             /\ diff_ts_check = TsCheck(psi, psi_prev, Delta_t, diff_ts)
             /\ ts_check = IF effect = "loss" THEN loss_ts_check
                           ELSE loss_ts_check /\ diff_ts_check)

\* A constant-Delta_t run of both effects that has just declared convergence.
C5_Witness ==
    /\ pc = "break"
    /\ const_Delta_t /\ ~benchmark_flag
    /\ effect = "all"
    /\ convergence_check

\* C6: a benchmark run is a constant-Delta_t run whatever const_Delta_t was
\* passed, its Delta_t never changes during the loop, and a tested iteration
\* declares convergence exactly when ts_check holds and dpsi/dt is zero on
\* every interior cell.
C6_Benchmark ==
    /\ [](pc # "constructed" /\ benchmark_flag
          => const_Delta_t /\ smallest_Delta_t = NoneVal)
    /\ [][(InLoop /\ benchmark_flag) => Delta_t' = Delta_t]_vars
    /\ [][(pc = "decide" /\ benchmark_flag /\ t > 1)
          => (convergence_check' <=>
                (/\ ts_check
                 /\ \A i \in Interior, j \in EIdx :
                       dpsidt(psi, psi_prev, Delta_t)[i][j] = 0))]_vars
    /\ [][(pc = "decide" /\ benchmark_flag /\ t <= 1)
          => ~convergence_check']_vars

\* A benchmark run of both effects that has converged and returned.
C6_Witness ==
    /\ pc = "done"
    /\ benchmark_flag
    /\ effect = "all"
    /\ convergence_check
    /\ t < max_t

\* C7: up to and including the iteration with t = 1 every check flag is
\* false, convergence is not declared and Delta_t is the initial one, so a
\* call returns only after at least two steps.
C7_TwoSteps ==
    /\ InLoop /\ t <= 1
         => /\ ~convergence_check /\ ~stability_check
            /\ ~loss_ts_check /\ ~diff_ts_check /\ ~ts_check
            /\ ~benchmark_check /\ ~rel_diff_check
            /\ pc # "break"
            /\ Delta_t = InitialDelta_t
    /\ pc = "done" => t >= 2

\* The second iteration of an accelerated run whose inner counter already
\* exceeds max_t_part: the checks are not made yet and the step goes ahead.
C7_Witness ==
    /\ pc = "step"
    /\ t = 1
    /\ ~benchmark_flag /\ ~const_Delta_t
    /\ t_part > Val(max_t_part)

\* C8: in accelerated mode with Delta_t > smallest_Delta_t, t_part counts
\* the steps since the last reduction (since the start before the first), and
\* an iteration reduces Delta_t exactly when that count is max_t_part + 1,
\* or max(2, max_t_part + 1) for the first reduction.
C8_ReductionSpacing ==
    /\ [][pc = "step" => t_part' = t_part + 1]_vars
    /\ [][(pc \in {"loop", "break"}) => t_part' = t_part]_vars
    /\ [](InLoop /\ ~benchmark_flag /\ ~const_Delta_t
          => (t_part = t <=> Delta_t = InitialDelta_t))
    /\ [][(/\ pc = "decide"
           /\ ~benchmark_flag /\ ~const_Delta_t
           /\ Delta_t > Val(smallest_Delta_t))
          => IF t_part = (IF Delta_t = InitialDelta_t
                          THEN Max2(2, Val(max_t_part) + 1)
                          ELSE Val(max_t_part) + 1)
             THEN Delta_t' < Delta_t /\ t_part' = 0
             ELSE Delta_t' = Delta_t /\ t_part' = t_part]_vars

\* The solve after a second reduction, made max_t_part + 1 = 2 steps after
\* the first.
C8_Witness ==
    /\ pc = "step"
    /\ ~benchmark_flag /\ ~const_Delta_t
    /\ max_t_part = Some(1)
    /\ t = 4
    /\ t_part = 0
    /\ Delta_t < Mul(InitialDelta_t, Val(Delta_t_reduction))

\* C9 as stated: at return of an animated call the number of snapshots is
\* the number of iterations made.
C9_LengthIsIterations ==
    pc = "done" /\ animation_flag => Len(snapshots) = t

\* C9 amended: an animated call holds one snapshot more than the iterations
\* made so far (the initial state is stored before the loop), at every point
\* of the loop and at return.
C9_LengthIsIterationsPlusOne ==
    (InLoop \/ pc = "done") /\ animation_flag => Len(snapshots) = t + 1

\* An animated call that has converged and returned.
C9_Witness ==
    /\ pc = "done"
    /\ animation_flag
    /\ convergence_check
    /\ t >= 2
    /\ Len(snapshots) = t + 1

\* C10: in an animated call the last snapshot holds the interior rows of the
\* current psi, and at return those of self.electrons and of the transposed
\* result, whether the loop ended by convergence or at the ceiling; a step
\* appends the interior rows of the psi it produced together with the
\* Delta_t it used, and no stored snapshot is changed afterwards.
C10_Snapshots ==
    /\ []((InLoop \/ pc = "done") /\ animation_flag
          => snapshots[Len(snapshots)][1] = [i \in Interior |-> psi[i]])
    /\ [](pc = "done" /\ animation_flag
          => \A i \in Interior, j \in EIdx :
                /\ snapshots[Len(snapshots)][1][i][j] = electrons[i][j]
                /\ snapshots[Len(snapshots)][1][i][j] = result[j][i])
    /\ [][(pc = "step" /\ animation_flag)
          => /\ Len(snapshots') = Len(snapshots) + 1
             /\ snapshots'[Len(snapshots')] =
                   <<[i \in Interior |-> psi'[i]], Delta_t>>
             /\ psi' = SetBoundary(Solved(psi, Q, Delta_t, effect,
                                          loss_AB, diff_AB))]_vars
    /\ [][(InLoop /\ animation_flag)
          => SubSeq(snapshots', 1, Len(snapshots)) = snapshots]_vars

\* An animated accelerated call that has returned after reducing Delta_t:
\* the snapshots carry different Delta_t.
C10_Witness ==
    /\ pc = "done"
    /\ animation_flag
    /\ ~const_Delta_t
    /\ Len(snapshots) > 2
    /\ snapshots[Len(snapshots)][2] < snapshots[1][2]
    /\ snapshots[Len(snapshots)][2] = Delta_t

\* C11: whenever the loop is running, and so at every solve, the matrices
\* of each active effect are the ones assembled with the current Delta_t,
\* the Delta_t that also multiplies Q in the solve.
C11_StencilsCurrent ==
    InLoop =>
        /\ effect \in {"loss", "all"} => loss_AB = spmatrices_loss(Delta_t)
        /\ effect \in {"diffusion", "all"} => diff_AB = spmatrices_diff(Delta_t)

\* A solve of both effects about to be made with a Delta_t that has been
\* reduced twice.
C11_Witness ==
    /\ pc = "step"
    /\ effect = "all"
    /\ ~benchmark_flag /\ ~const_Delta_t
    /\ Delta_t < Mul(InitialDelta_t, Val(Delta_t_reduction))
    /\ spmatrices_diff(Delta_t) # spmatrices_diff(InitialDelta_t)

\* C12: in a solve of both effects the outer row is zero after the energy
\* half-step as well, that is on the psi the radial half-step is given, and
\* after the radial half-step the outer row of the new psi is zero.
C12_BoundaryAfterEachSweep ==
    [][(pc = "step" /\ effect = "all")
       => /\ \A j \in EIdx :
               EnergySweep(psi, Q, Delta_t, loss_AB)[r_bins - 1][j] = 0
          /\ \A j \in EIdx : psi'[r_bins - 1][j] = 0]_vars

\* C13: solveElectrons sets effect to "loss" for lossOnly = True and to
\* "all" otherwise, and the effect stays as set. With "loss" the diffusion
\* matrices are never built (not before the loop, not at a reduction) and a
\* step is the energy solve alone; with "all" a step is the energy solve
\* followed by the radial solve of the energy solve's result.
C13_Effects ==
    /\ [][pc = "constructed"
          => effect' = IF args.lossOnly THEN "loss" ELSE "all"]_vars
    /\ [][pc # "constructed" => effect' = effect]_vars
    /\ [](effect = "loss" => diff_AB = NoneVal)
    /\ [](InLoop /\ effect = "all" => diff_AB # NoneVal /\ loss_AB # NoneVal)
    /\ [][(pc = "step" /\ effect = "loss")
          => psi' = SetBoundary(ReshapeC(spsolve(loss_AB[1],
                      [k \in FlatIdx |->
                          MatDot(loss_AB[2], FlattenC(psi))[k]
                            + Mul(FlattenC(Q)[k], Delta_t)])))]_vars
    /\ [][(pc = "step" /\ effect = "all")
          => psi' = SetBoundary(
                      RadialSweep(EnergySweep(psi, Q, Delta_t, loss_AB),
                                  Q, Delta_t, diff_AB))]_vars

\* A loss-only accelerated call that has reduced Delta_t and is about to
\* solve: no diffusion matrices exist.
C13_Witness ==
    /\ pc = "step"
    /\ effect = "loss"
    /\ ~benchmark_flag /\ ~const_Delta_t
    /\ t > 1
    /\ t_part = 0
    /\ diff_AB = NoneVal

\* C14: every half-step that is made adds Delta_t * Q, whole, to its
\* right-hand side: the energy solve at row-major position i * E_bins + j,
\* the radial solve at column-major position j * r_bins + i; a step of both
\* effects so adds it twice, a loss-only step once.
C14_SourceWeight ==
    [][pc = "step" =>
        LET Bl == MatDot(loss_AB[2], [k \in FlatIdx |->
                                        psi[k \div E_bins][k % E_bins]])
            rhsE == [k \in FlatIdx |->
                       Bl[k] + Mul(Q[k \div E_bins][k % E_bins], Delta_t)]
            xE == spsolve(loss_AB[1], rhsE)
            p1 == [i \in RIdx |-> [j \in EIdx |-> xE[i * E_bins + j]]]
            Bd == MatDot(diff_AB[2], [k \in FlatIdx |->
                                        p1[k % r_bins][k \div r_bins]])
            rhsR == [k \in FlatIdx |->
                       Bd[k] + Mul(Q[k % r_bins][k \div r_bins], Delta_t)]
            xR == spsolve(diff_AB[1], rhsR)
            p2 == [i \in RIdx |-> [j \in EIdx |-> xR[j * r_bins + i]]]
        IN  psi' = SetBoundary(IF effect = "all" THEN p2 ELSE p1)]_vars

\* A step of both effects about to be made from a psi that has moved away
\* from Q, with a source that is not zero.
C14_Witness ==
    /\ pc = "step"
    /\ effect = "all"
    /\ t >= 2
    /\ \E i \in Interior, j \in EIdx : Q[i][j] > 0 /\ psi[i][j] # Q[i][j]

\* C15: the Delta_t solveElectrons starts cn_2D with. Accelerated (neither
\* benchmark nor constant step): the Delta_ti passed, in seconds, times 0.5
\* for "all" and 1.0 for "loss", never times 0.1. Constant step (benchmark
\* included): the least entry over the whole grid of loss_ts ("loss") or of
\* loss_ts and diff_ts together ("all"), times 0.5 for "all", times 0.1
\* with benchmark.
C15_InitialStep ==
    [][pc = "constructed" =>
        LET half == IF args.lossOnly THEN One ELSE One \div 2
            tenth == IF benchmark_flag THEN One \div 10 ELSE One
            ts == {loss_ts[i][j] : i \in RIdx, j \in EIdx}
                    \cup (IF args.lossOnly THEN {}
                          ELSE {diff_ts[i][j] : i \in RIdx, j \in EIdx})
            least == CHOOSE x \in ts : \A y \in ts : x <= y
        IN  Delta_t' = IF ~benchmark_flag /\ ~const_Delta_t
                       THEN Mul(args.Delta_ti * SecPerYr, half)
                       ELSE Mul(Mul(least, half), tenth)]_vars

\* A loss-only constant-step call about to enter cn_2D, on a grid whose
\* diffusion timescale is somewhere below every loss timescale.
C15_Witness ==
    /\ pc = "cn_2D"
    /\ const_Delta_t /\ ~benchmark_flag
    /\ effect = "loss"
    /\ diff_min < loss_min
    /\ Delta_t = loss_min

\* C16: what solveElectrons returns has shape (E_bins, r_bins) and its
\* entry [j, i] is the final psi[i, j]; self.electrons holds the final psi
\* untransposed, shape (r_bins, E_bins).
C16_ReturnsTranspose ==
    pc = "done" =>
        /\ DOMAIN result = EIdx
        /\ \A j \in EIdx : DOMAIN result[j] = RIdx
        /\ DOMAIN electrons = RIdx
        /\ \A i \in RIdx : DOMAIN electrons[i] = EIdx
        /\ electrons = psi
        /\ \A i \in RIdx, j \in EIdx : result[j][i] = psi[i][j]

\* A returned solution of both effects that is not constant along either
\* axis.
C16_Witness ==
    /\ pc = "done"
    /\ effect = "all"
    /\ convergence_check
    /\ result[0][0] # result[0][1]
    /\ result[0][0] # result[1][0]

\* C17: cn_2D starts psi as Q with the outer row zeroed and leaves Q as it
\* is in doing so, and no later step of the call (test, reduction, solve,
\* boundary reset, return) changes Q.
C17_SourceImmutable ==
    /\ [][pc = "cn_2D"
          => /\ Q' = Q
             /\ psi' = [i \in RIdx |-> [j \in EIdx |->
                          IF i = r_bins - 1 THEN 0 ELSE Q[i][j]]]]_vars
    /\ [][(pc \in {"loop", "decide", "step", "break"}) => Q' = Q]_vars

\* A call that has returned, with a source whose outer row is not zero and
\* a psi that has moved away from it.
C17_Witness ==
    /\ pc = "done"
    /\ \E j \in EIdx : Q[r_bins - 1][j] # 0
    /\ \E i \in Interior, j \in EIdx : psi[i][j] # Q[i][j]

\* C18: a call whose D, dDdr or b has a non-finite entry ends in a fatal
\* error: solveElectrons does not go on to cn_2D with such coefficients.
C18_NonFiniteFatal ==
    [][(pc = "constructed" /\ ~dDdr_finite(args)) => pc' = "raised"]_vars

\* C19: a call with invalid input (here: negative densities) is rejected at
\* entry: solveElectrons does not go on to build Q and to call cn_2D.
C19_InvalidInputFatal ==
    [][(pc = "constructed" /\ ~rho_valid(args)) => pc' = "raised"]_vars

\* C20: a call always returns the last psi, however the loop ended, and
\* after return the caller can read from the object whether the solve
\* converged and, in a benchmark run, whether the benchmark condition was
\* met: some flag the caller holds has the value of that status.
C20_StatusInspectable ==
    pc = "done" =>
        /\ \A i \in RIdx, j \in EIdx : result[j][i] = psi[i][j]
        /\ \E f \in DOMAIN CallerView : CallerView[f] = convergence_check
        /\ benchmark_flag =>
              \E f \in DOMAIN CallerView : CallerView[f] = benchmark_check

\* C21: the solver on the source 2 Q does at every step what it does on Q,
\* with psi doubled. At every state of a run on Q: the psi the setup makes
\* of 2 Q is twice the psi it makes of Q; the checks of the iteration have
\* the same outcome on (2 psi, 2 psi_prev) as on (psi, psi_prev), so that
\* the same decision follows (break, reduction of Delta_t or step, with the
\* same Delta_t and matrices, which depend on neither psi nor Q); the step
\* made of (2 psi, 2 Q) is twice the step made of (psi, Q); and the array
\* returned for 2 psi is twice the array returned. By induction on the
\* iterations the run on 2 Q has the same number of iterations, the same
\* sequence of Delta_t and the same end as the run on Q, and returns
\* exactly twice its psi.
C21_LinearScaling ==
    /\ pc = "cn_2D" =>
          FlSetBoundary(DoubleGrid(Q)) = DoubleGrid(FlSetBoundary(Q))
    /\ (pc = "loop" /\ LoopCondition /\ ChecksActive(t)) =>
          \A p2 \in {DoubleGrid(psi)}, pp2 \in {DoubleGrid(psi_prev)} :
              /\ FlRelDiff(p2, pp2) = FlRelDiff(psi, psi_prev)
              /\ FlTsCheck(p2, pp2, Delta_t, loss_ts)
                    = FlTsCheck(psi, psi_prev, Delta_t, loss_ts)
              /\ FlTsCheck(p2, pp2, Delta_t, diff_ts)
                    = FlTsCheck(psi, psi_prev, Delta_t, diff_ts)
              /\ FlBenchmarkCheck(p2, pp2, Delta_t)
                    = FlBenchmarkCheck(psi, psi_prev, Delta_t)
    /\ pc = "step" =>
          FlSetBoundary(FlSolved(DoubleGrid(psi), DoubleGrid(Q), Delta_t,
                                 effect, loss_AB, diff_AB))
            = DoubleGrid(FlSetBoundary(FlSolved(psi, Q, Delta_t, effect,
                                                loss_AB, diff_AB)))
    /\ pc = "done" => Transpose(DoubleGrid(psi)) = DoubleGrid(result)

\* An accelerated run of both effects that has converged after reductions
\* of Delta_t, on a psi that is not the source any more and is not zero.
C21_Witness ==
    /\ pc = "done"
    /\ convergence_check
    /\ Accelerated
    /\ effect = "all"
    /\ Delta_t < InitialDelta_t
    /\ \E i \in Interior, j \in EIdx :
          psi[i][j] # Q[i][j] /\ psi[i][j][1] # 0

\* C22: in the dictionary check_diffusion returns, loss_only is present
\* (False when the caller left it out, the caller's value otherwise); when
\* it is true diff_constant is 0.0 whatever the caller supplied; when it is
\* false diff_constant and diff_index are the caller's values where
\* supplied and the defaults 3e28 and 1/3 where not.
C22_CheckDiffusion ==
    pc = "checked" =>
        /\ result.loss_only = IF args.loss_only = NoneVal THEN Some(FALSE)
                              ELSE args.loss_only
        /\ Val(result.loss_only) => result.diff_constant = Some(0)
        /\ ~Val(result.loss_only) =>
              /\ result.diff_constant =
                    IF args.diff_constant = NoneVal
                    THEN Some(diff_constant_default)
                    ELSE args.diff_constant
              /\ result.diff_index =
                    IF args.diff_index = NoneVal
                    THEN Some(diff_index_default)
                    ELSE args.diff_index

\* A dictionary returned for a caller who set loss_only and a non-zero
\* diff_constant.
C22_Witness ==
    /\ pc = "checked"
    /\ args.loss_only = Some(TRUE)
    /\ args.diff_constant = Some(5)
    /\ result.diff_constant = Some(0)

\* C23: in the loss matrices every super-diagonal entry that couples cell
\* (i, j) to cell (i, j+1), j < E_bins - 1, is made of the prefactor and the
\* loss rate at j+1: -1/2 Delta_t E_prefactor(j+1) b[i][j+1] / Delta_E in A,
\* +1/2 of the same in B, the entry at j = E_bins - 2 included.
C23_SuperDiagonal ==
    (InLoop /\ effect \in {"loss", "all"}) =>
        \A i \in RIdx, j \in 0 .. (E_bins - 2) :
            LET a3 == Mul(Delta_t,
                          Div(Mul(E_prefactor(j + 1), b[i][j + 1]), Delta_E))
            IN  /\ loss_AB[1].u[i * E_bins + j] = (-a3) \div 2
                /\ loss_AB[2].u[i * E_bins + j] = -((-a3) \div 2)

\* C24: the matrices in use are block-diagonal. Of the three diagonals
\* sparse.diags is given (offsets -1, 0, 1), the entries of the lower and
\* the upper one that join the last cell of a block to the first cell of
\* the next are zero: blocks of E_bins cells (one per radial index) in the
\* loss matrices, of r_bins cells (one per energy index) in the diffusion
\* matrices.
C24_BlockDiagonal ==
    InLoop =>
        /\ effect \in {"loss", "all"} =>
              \A k \in {1, 2}, p \in FlatIdx :
                  p % E_bins = E_bins - 1 =>
                      loss_AB[k].u[p] = 0 /\ loss_AB[k].l[p] = 0
        /\ effect \in {"diffusion", "all"} =>
              \A k \in {1, 2}, p \in FlatIdx :
                  p % r_bins = r_bins - 1 =>
                      diff_AB[k].u[p] = 0 /\ diff_AB[k].l[p] = 0

\* A solve of both effects whose matrices have non-zero off-diagonal
\* entries inside the blocks, after a reduction of Delta_t has rebuilt them.
C24_Witness ==
    /\ pc = "step"
    /\ effect = "all"
    /\ Delta_t < InitialDelta_t
    /\ \E p \in FlatIdx : p % E_bins < E_bins - 1 /\ loss_AB[1].u[p] # 0
    /\ \E p \in FlatIdx : p % r_bins < r_bins - 1 /\ diff_AB[1].u[p] # 0
    /\ \E p \in FlatIdx : p % r_bins < r_bins - 1 /\ diff_AB[1].l[p] # 0

\* psi or Q with one cell changed.
Perturbed(a, i0, j0, d) == [a EXCEPT ![i0][j0] = @ + d]

\* C25: the energy half-step is upwind. The lower diagonal of both loss
\* matrices is zero, and the psi the half-step is about to produce at cell
\* (i, j) is the same when psi or Q is changed at a cell of another radial
\* row or at a lower energy index of the same row.
C25_Upwind ==
    []((pc = "step" /\ effect \in {"loss", "all"}) =>
        /\ \A k \in {1, 2}, p \in FlatIdx : loss_AB[k].l[p] = 0
        /\ \A was \in {EnergySweep(psi, Q, Delta_t, loss_AB)} :
           \A i0 \in RIdx, j0 \in EIdx :
           \A p2 \in {EnergySweep(Perturbed(psi, i0, j0, One), Q, Delta_t,
                                  loss_AB)},
              q2 \in {EnergySweep(psi, Perturbed(Q, i0, j0, One), Delta_t,
                                  loss_AB)} :
              \A i \in RIdx, j \in EIdx :
                 (i # i0 \/ j > j0) =>
                     p2[i][j] = was[i][j] /\ q2[i][j] = was[i][j])

\* An energy half-step on a psi that has moved, with matrices whose upper
\* diagonal is not zero: a change of psi at the upper energy index of a row
\* does change the result at the lower one.
C25_Witness ==
    /\ pc = "step"
    /\ effect \in {"loss", "all"}
    /\ t >= 2
    /\ \E p \in FlatIdx : loss_AB[1].u[p] # 0
    /\ \E i \in RIdx :
          EnergySweep(Perturbed(psi, i, E_bins - 1, One), Q, Delta_t,
                      loss_AB)[i][0]
              # EnergySweep(psi, Q, Delta_t, loss_AB)[i][0]

\* C26: for i >= 1 the off-diagonal coefficients of the diffusion matrices
\* have the drift term (ln10 D + dDdr) / (2 Delta_r), with ln 10 on D: the
\* lower entry of cell (i, j) is -1/2 r_alpha1 and the upper entry is
\* -1/2 r_alpha3, where
\* r_alpha1 = Delta_t r_prefactor(i)^2 (-(ln10 D + dDdr)/(2 Delta_r) + D/Delta_r^2),
\* r_alpha3 = Delta_t r_prefactor(i)^2 (+(ln10 D + dDdr)/(2 Delta_r) + D/Delta_r^2).
C26_DriftLn10 ==
    (InLoop /\ effect \in {"diffusion", "all"}) =>
        \A j \in EIdx, i \in 1 .. (r_bins - 1) :
            LET pre == Mul(Delta_t, IPow(r_prefactor(i), 2))
                drift == Div(Mul(Ln10, D[i][j]) + dDdr[i][j], 2 * Delta_r)
                second == Div(D[i][j], Mul(Delta_r, Delta_r))
                a1 == Mul(pre, Div(-(Mul(Ln10, D[i][j]) + dDdr[i][j]),
                                   2 * Delta_r) + second)
                a3 == Mul(pre, drift + second)
            IN  /\ diff_AB[1].l[j * r_bins + i - 1] = (-a1) \div 2
                /\ i < r_bins - 1 =>
                      diff_AB[1].u[j * r_bins + i] = (-a3) \div 2

\* C27: in the accelerated method convergence is declared only once Delta_t
\* is down at its smallest value: whenever the loop has ended by
\* convergence Delta_t <= smallest_Delta_t, and an iteration that finds
\* Delta_t > smallest_Delta_t never breaks, whatever its checks say.
C27_ConvergenceAtFloor ==
    /\ [](Accelerated /\ convergence_check
            => Delta_t <= Val(smallest_Delta_t))
    /\ [][(pc = "decide" /\ Accelerated
             /\ Delta_t > Val(smallest_Delta_t)) => pc' = "step"]_vars

\* An accelerated run that has converged, after reductions, and one step
\* below smallest_Delta_t.
C27_Witness ==
    /\ pc = "break"
    /\ Accelerated
    /\ convergence_check
    /\ Delta_t < InitialDelta_t
    /\ Delta_t < Val(smallest_Delta_t)

\* What no step of a run at constant Delta_t changes.
ConstFrame == <<Delta_t, loss_AB, diff_AB>>

TestedOn(p, pp, dt) ==
    /\ rel_diff_check = RelDiff(p, pp)
    /\ loss_ts_check =
          \A i \in Interior, j \in EIdx :
              FAbsAbove(FDiv(p[i][j], Div(p[i][j] - pp[i][j], dt)),
                        loss_ts[i][j])
    /\ diff_ts_check =
          \A i \in Interior, j \in EIdx :
              FAbsAbove(FDiv(p[i][j], Div(p[i][j] - pp[i][j], dt)),
                        diff_ts[i][j])

\* C29: at every test psi is exactly one CN step from psi_prev, made with
\* the Delta_t and the matrices still in place, and the checks are those of
\* this psi, psi_prev and Delta_t; the iteration that declares convergence
\* changes nothing of psi, psi_prev, Delta_t, the counters and the
\* snapshots, and the array returned is that psi.
C29_ReturnsTestedState ==
    /\ []((pc \in {"loop", "decide", "break", "done"} /\ t >= 1) =>
            psi = SetBoundary(Solved(psi_prev, Q, Delta_t, effect,
                                     loss_AB, diff_AB)))
    /\ []((pc \in {"decide", "break"} /\ ChecksActive(t)) =>
            TestedOn(psi, psi_prev, Delta_t))
    /\ []((pc = "done" /\ convergence_check) =>
            /\ TestedOn(psi, psi_prev, Delta_t)
            /\ electrons = psi
            /\ \A i \in RIdx, j \in EIdx : result[j][i] = psi[i][j])
    /\ [][((pc = "decide" /\ pc' = "break") \/ pc = "break") =>
            UNCHANGED <<psi, psi_prev, Delta_t, t, t_part, t_elapsed,
                        snapshots, loss_AB, diff_AB>>]_vars

\* An accelerated run returned after convergence, with a psi that differs
\* from psi_prev and a Delta_t that has been reduced.
C29_Witness ==
    /\ pc = "done"
    /\ convergence_check
    /\ Accelerated
    /\ Delta_t < InitialDelta_t
    /\ psi # psi_prev

\* C30: in the accelerated method, when the Delta_t of the start is above
\* smallest_Delta_t, Delta_t stays above Delta_t_reduction times
\* smallest_Delta_t; once Delta_t <= smallest_Delta_t no step changes
\* Delta_t, the matrices or t_part other than by counting; and when the
\* Delta_t of the start is not above smallest_Delta_t it is never reduced.
C30_FloorOvershoot ==
    /\ []((InLoop /\ Accelerated) =>
            IF InitialDelta_t > Val(smallest_Delta_t)
            THEN Delta_t * One
                   > Val(Delta_t_reduction) * Val(smallest_Delta_t)
            ELSE Delta_t = InitialDelta_t /\ t_part = t)
    /\ [][(InLoop /\ Accelerated /\ Delta_t <= Val(smallest_Delta_t)) =>
            /\ UNCHANGED <<Delta_t, loss_AB, diff_AB>>
            /\ t_part' >= t_part]_vars

\* An accelerated run started above smallest_Delta_t, now below it, that
\* steps on after its stability check has passed.
C30_Witness ==
    /\ pc = "step"
    /\ Accelerated
    /\ InitialDelta_t > Val(smallest_Delta_t)
    /\ Delta_t < Val(smallest_Delta_t)
    /\ stability_check

====
